---- MODULE Spec2Model ----
(***************************************************************************)
(* A model of kra-go: the serialisation of a KritaDocument into a .kra     *)
(* archive (pkg/document), the layer-style block encoder (pkg/asl), the    *)
(* tile codec (SaveKritaLayer) and the XML node printer (XMLNode.ToString).*)
(*                                                                         *)
(* Bytes are integers 0..255, byte strings and Go strings are sequences of *)
(* bytes, paths are sequences of path elements.                            *)
(***************************************************************************)
EXTENDS Integers, Sequences, FiniteSets, TLC

VARIABLES
  \* ---- KritaDocument.Save (specification Spec)
  doc,          \* the KritaDocument: Width, Height, Layers, TempDir
  pc,           \* position of Save
  layerInfos,   \* Save's local []LayerInfo
  zip,          \* members written to the zip.Writer, in order
  zipState,     \* "none" | "open" | "closed" | "closeFailed": the zip.Writer
  outFile,      \* "none" | "open" | "closed": the destination file
  fs,           \* paths that exist below the working directory
  ret,          \* "none" | "ok" | "err": what Save returned
  nextUUID,     \* how many identifiers uuid.New() has handed out
  li,           \* processLayers' loop index (1-based)
  \* ---- writeASLString (specification SpecStr)
  strIn, strType, strBuf0, strBuf, strPc,
  \* ---- CreateLayerStylesASL (specification SpecASL)
  aslInfos, asl, aslIdx, recStarts, aslPc,
  \* ---- SaveKritaLayer (specifications SpecTile and SpecPlanes)
  img, tileEntries, tilePos, tileFile, tilePc,
  pix,          \* the pixels of img, by column and row from its top-left corner
  planeData,    \* the plane buffer of the tile being encoded
  \* ---- XMLNode.ToString (specification SpecXML)
  node, xmlOut1, xmlOut2, xmlPc

saveVars == <<doc, pc, layerInfos, zip, zipState, outFile, fs, ret, nextUUID, li>>
strVars  == <<strIn, strType, strBuf0, strBuf, strPc>>
aslVars  == <<aslInfos, asl, aslIdx, recStarts, aslPc>>
tileVars == <<img, tileEntries, tilePos, tileFile, tilePc, pix, planeData>>
xmlVars  == <<node, xmlOut1, xmlOut2, xmlPc>>
vars     == <<saveVars, strVars, aslVars, tileVars, xmlVars>>

-----------------------------------------------------------------------------
(* Bounds of the model *)

MaxLayers == 3        \* most layers of a document in Spec

MaxStrLen == 3        \* longest string handed to writeASLString in SpecStr

MaxNameLen == 1       \* longest layer name in SpecASL

MaxAslLayers == 2     \* most layers handed to CreateLayerStylesASL in SpecASL

MaxAxisTiles == 2     \* images in SpecTile are at most 64 * MaxAxisTiles wide and high

MaxCompressedLen == 1 \* most bytes lzf.Compress returns for a tile in SpecTile

MaxAttrs == 2         \* most attributes of one XMLNode in SpecXML

-----------------------------------------------------------------------------
(* Generic helpers *)

\* all sequences over S of length at most n
SeqsUpTo(S, n) == UNION {[1..k -> S] : k \in 0..n}

RECURSIVE Concat(_)
\* the concatenation of a sequence of sequences
Concat(ss) == IF ss = <<>> THEN <<>> ELSE Head(ss) \o Concat(Tail(ss))

\* n zero bytes: make([]byte, n)
Zeros(n) == [i \in 1..n |-> 0]

-----------------------------------------------------------------------------
(* encoding/binary, big endian *)

U16BE(n) == <<(n \div 256) % 256, n % 256>>

U32BE(n) == <<(n \div 16777216) % 256, (n \div 65536) % 256, (n \div 256) % 256, n % 256>>

\* the u32 stored at 0-based offset pos of buf
U32At(buf, pos) ==
  buf[pos + 1] * 16777216 + buf[pos + 2] * 65536 + buf[pos + 3] * 256 + buf[pos + 4]

\* binary.BigEndian.PutUint32(buf[pos:pos+4], v)
PutUint32(buf, pos, v) ==
  [i \in 1..Len(buf) |-> IF i \in (pos + 1)..(pos + 4) THEN U32BE(v)[i - pos] ELSE buf[i]]

RECURSIVE Log2(_)
\* floor(log2 v), v >= 1
Log2(v) == IF v < 2 THEN 0 ELSE 1 + Log2(v \div 2)

RECURSIVE Pow2(_)
Pow2(e) == IF e = 0 THEN 1 ELSE 2 * Pow2(e - 1)

RECURSIVE MantissaBytes(_, _, _)
\* the next k bytes of the binary fraction r / d
MantissaBytes(r, d, k) ==
  IF k = 0 THEN <<>>
  ELSE <<(r * 256) \div d>> \o MantissaBytes((r * 256) % d, d, k - 1)

\* binary.Write(buf, BigEndian, float64(v)) for a whole value 0 <= v < 2^16:
\* sign 0, 11 bits of biased exponent, 52 bits of fraction
F64BE(v) ==
  IF v = 0 THEN Zeros(8)
  ELSE LET e   == Log2(v)
           d   == Pow2(e)
           ex  == 1023 + e
           r   == v - d
       IN  <<ex \div 16, (ex % 16) * 16 + ((r * 16) \div d)>>
             \o MantissaBytes((r * 16) % d, d, 6)

-----------------------------------------------------------------------------
(* pkg/asl: writeASLString *)

\* the "embedded" form: every byte of s followed by a zero byte, then 0, 0
EncodeEmbedded(s) ==
  [i \in 1..(2 * Len(s) + 2) |->
     IF i <= 2 * Len(s) /\ i % 2 = 1 THEN s[(i + 1) \div 2] ELSE 0]

\* the encoded buffer of writeASLString
EncodeASL(s, stringType) ==
  IF stringType = "embedded" THEN EncodeEmbedded(s) ELSE s

\* a padding that is a whole word when the buffer is already aligned
ASLPaddingFullWord(n) == 4 - (n % 4)

\* padding := (4 - (len(encoded) % 4)) % 4
ASLPadding(n) == (4 - (n % 4)) % 4

\* writeASLString(buf, s, stringType): the buffer afterwards
writeASLString(buf, s, stringType) ==
  LET encoded == EncodeASL(s, stringType)
      prefix  == IF stringType # "key" THEN U32BE(Len(encoded)) ELSE <<>>
  IN  buf \o prefix \o encoded \o Zeros(ASLPadding(Len(encoded)))


-----------------------------------------------------------------------------
(* pkg/layers: the layer variants held by KritaDocument.Layers *)

\* a nil *LayerStyle
NilStyle == [nil |-> TRUE]

\* a non-nil *LayerStyle (NewLayerStyle's defaults for the stroke values)
LayerStyle(enabled, strokeEnabled) ==
  [nil |-> FALSE, Enabled |-> enabled, Scale |-> 100, StrokeEnabled |-> strokeEnabled,
   StrokeOpacity |-> 100, StrokeSize |-> 3, StrokeColor |-> <<255, 255, 255>>]

\* a *layers.ShapeLayer (text layers are ShapeLayers with ContentType "text")
ShapeLayer(contentType, name, style, uuid, styleUUID) ==
  [kind |-> "shape", ContentType |-> contentType, Name |-> name, Visible |-> TRUE,
   Opacity |-> 255, X |-> 0, Y |-> 0, LayerStyle |-> style, UUID |-> uuid,
   LayerStyleUUID |-> styleUUID]

\* a *layers.PaintLayer; Image is NilImage or an image with bounds
PaintLayer(name, image) ==
  [kind |-> "paint", Name |-> name, Visible |-> TRUE, Opacity |-> 255,
   X |-> 0, Y |-> 0, Image |-> image]

\* Save's LayerInfo
LayerInfo(layer, uuid, layerName) ==
  [Layer |-> layer, UUID |-> uuid, LayerName |-> layerName]

\* sl, ok := li.Layer.(*layers.ShapeLayer); ok && sl.LayerStyle != nil
IsStyled(info) == info.Layer.kind = "shape" /\ ~info.Layer.LayerStyle.nil

-----------------------------------------------------------------------------
(* pkg/asl: CreateLayerStylesASL *)

T_8BSL == <<56, 66, 83, 76>>
T_null == <<110, 117, 108, 108>>
T_Nm   == <<78, 109, 32, 32>>
T_TEXT == <<84, 69, 88, 84>>
T_Idnt == <<73, 100, 110, 116>>
T_StyL == <<83, 116, 121, 76>>
T_documentMode == <<100, 111, 99, 117, 109, 101, 110, 116, 77, 111, 100, 101>>
T_Objc == <<79, 98, 106, 99>>
T_Lefx == <<76, 101, 102, 120>>
T_Scl  == <<83, 99, 108, 32>>
T_UntFPrc == <<85, 110, 116, 70, 35, 80, 114, 99>>
T_masterFXSwitch == <<109, 97, 115, 116, 101, 114, 70, 88, 83, 119, 105, 116, 99, 104>>
T_bool == <<98, 111, 111, 108>>
T_FrFX == <<70, 114, 70, 88>>
T_enab == <<101, 110, 97, 98>>
T_Style == <<83, 116, 121, 108, 101>>
T_enum == <<101, 110, 117, 109>>
T_FStl == <<70, 83, 116, 108>>
T_OutF == <<79, 117, 116, 70>>
T_PntT == <<80, 110, 116, 84>>
T_FrFl == <<70, 114, 70, 108>>
T_SClr == <<83, 67, 108, 114>>
T_Md   == <<77, 100, 32, 32>>
T_BlnM == <<66, 108, 110, 77>>
T_Nrml == <<78, 114, 109, 108>>
T_Opct == <<79, 112, 99, 116>>
T_Sz   == <<83, 122, 32, 32>>
T_UntFPxl == <<85, 110, 116, 70, 35, 80, 120, 108>>
T_Clr  == <<67, 108, 114, 32>>
T_RGBC == <<82, 71, 66, 67>>
T_Rd   == <<82, 100, 32, 32>>
T_Grn  == <<71, 114, 110, 32>>
T_Bl   == <<66, 108, 32, 32>>
T_doub == <<100, 111, 117, 98>>

\* the header: u16 2, "8BSL", u16 3, u32 0
ASLHeader == U16BE(2) \o T_8BSL \o U16BE(3) \o U32BE(0)

\* a count of every ShapeLayer, styled or not
NumStylesAllShapes(infos) ==
  Cardinality({i \in 1..Len(infos) : infos[i].Layer.kind = "shape"})

\* numStyles: the layers that are ShapeLayers with a non-nil LayerStyle
NumStyles(infos) == Cardinality({i \in 1..Len(infos) : IsStyled(infos[i])})

\* fmt.Sprintf("<%s> (embedded)", sl.Name)
StyleDisplayName(name) ==
  <<60>> \o name \o <<62, 32, 40, 101, 109, 98, 101, 100, 100, 101, 100, 41>>

\* "%" + strings.ReplaceAll(sl.LayerStyleUUID, "-", "")
StyleIdnt(styleUUID) == <<37>> \o SelectSeq(styleUUID, LAMBDA b : b # 45)

\* the FrFX object written when the stroke effect is enabled
StrokeBytes(st) ==
  T_FrFX \o T_Objc \o T_FrFX \o T_enab \o T_bool \o <<1>>
  \o T_Style \o T_enum \o T_FStl \o T_OutF
  \o T_PntT \o T_enum \o T_FrFl \o T_SClr
  \o T_Md \o T_enum \o T_BlnM \o T_Nrml
  \o T_Opct \o T_UntFPrc \o F64BE(st.StrokeOpacity)
  \o T_Sz \o T_UntFPxl \o F64BE(st.StrokeSize)
  \o T_Clr \o T_Objc \o T_RGBC
  \o T_Rd \o T_doub \o F64BE(st.StrokeColor[1])
  \o T_Grn \o T_doub \o F64BE(st.StrokeColor[2])
  \o T_Bl \o T_doub \o F64BE(st.StrokeColor[3])

\* everything one iteration appends to the buffer after the reserved length field
WriteStyleBody(buf, sl) ==
  LET b1 == buf \o T_null \o T_Nm \o T_TEXT
      b2 == writeASLString(b1, StyleDisplayName(sl.Name), "embedded")
      b3 == b2 \o T_Idnt \o T_TEXT
      b4 == writeASLString(b3, StyleIdnt(sl.LayerStyleUUID), "embedded")
      b5 == b4 \o T_StyL \o T_documentMode \o T_Objc \o T_documentMode
               \o T_Lefx \o T_Objc \o T_Lefx
               \o T_Scl \o T_UntFPrc \o F64BE(sl.LayerStyle.Scale)
               \o T_masterFXSwitch \o T_bool
               \o <<IF sl.LayerStyle.Enabled THEN 1 ELSE 0>>
  IN  IF sl.LayerStyle.StrokeEnabled THEN b5 \o StrokeBytes(sl.LayerStyle) ELSE b5

\* a length that counts the reserved field too
StyleSizeWithField(bufLen, styleStartPos) == bufLen - styleStartPos

\* styleSize := uint32(asl.Len() - styleStartPos - 4); the lengths here are far
\* below 2^31, where the conversion is the identity
StyleSize(bufLen, styleStartPos) == bufLen - styleStartPos - 4

\* one iteration of the style loop for a styled layer: reserve the length field,
\* write the body, patch the field in place
WriteStyleRecord(buf, sl) ==
  LET styleStartPos == Len(buf)
      written       == WriteStyleBody(buf \o U32BE(0), sl)
  IN  PutUint32(written, styleStartPos, StyleSize(Len(written), styleStartPos))

RECURSIVE WriteStyles(_, _, _)
\* the style loop from layer i on
WriteStyles(buf, infos, i) ==
  IF i > Len(infos) THEN buf
  ELSE IF IsStyled(infos[i])
       THEN WriteStyles(WriteStyleRecord(buf, infos[i].Layer), infos, i + 1)
       ELSE WriteStyles(buf, infos, i + 1)

\* CreateLayerStylesASL(layerInfos): the returned bytes
CreateLayerStylesASL(infos) ==
  WriteStyles(ASLHeader \o U32BE(NumStyles(infos)), infos, 1)


-----------------------------------------------------------------------------
(* pkg/document: SaveKritaLayer, the tile codec *)

\* the tile edge: the 64 of SaveKritaLayer
TileSize == 64

\* an image.Image with the bounds (minX, minY)-(minX+w, minY+h)
Image(minX, minY, w, h) == [nil |-> FALSE, minX |-> minX, minY |-> minY, w |-> w, h |-> h]

\* a nil image (the Image field of a PaintLayer that holds none)
NilImage == [nil |-> TRUE]

\* a tile count that drops the partial tile at the edge
TileCountTruncated(n) == n \div TileSize

\* int(math.Ceil(float64(n) / 64.0)): the division is exact in float64 for
\* these n, so the ceiling adds one exactly when a remainder is left
TileCount(n) == IF n % TileSize = 0 THEN n \div TileSize ELSE n \div TileSize + 1

\* lzf.Compress on a tile's plane buffer: a failure, or c >= 1 compressed bytes
CompressErr == [err |-> TRUE, len |-> 0]

CompressOk(c) == [err |-> FALSE, len |-> c]

\* the entry appended for the tile at (tx, ty): its header line
\* "<left>,<top>,LZF,<len(tileData)>\n" and tileData, the flag byte 1 followed
\* by the compressed bytes (none when Compress failed: compressed = []byte{})
TileEntry(tx, ty, r) ==
  LET left == tx * TileSize
      top  == ty * TileSize
      compressedLen == IF r.err THEN 0 ELSE r.len
  IN  [Header |-> [left |-> left, top |-> top, tag |-> "LZF", len |-> 1 + compressedLen],
       Data   |-> [flag |-> 1, planes |-> IF r.err THEN <<>> ELSE <<left, top>>,
                   len |-> 1 + compressedLen]]

\* the position after (ty, tx) of  for ty { for tx { ... } }
NextTilePos(pos, nx) ==
  IF pos[2] + 1 < nx THEN <<pos[1], pos[2] + 1>> ELSE <<pos[1] + 1, 0>>

\* the file SaveKritaLayer writes: the five header lines, then the entries
TileFile(entries) ==
  [VERSION |-> 2, TILEWIDTH |-> TileSize, TILEHEIGHT |-> TileSize, PIXELSIZE |-> 4,
   DATA |-> Len(entries), tiles |-> entries]

\* no file written (yet)
NoFile == [none |-> TRUE]

\* a pixel as the bytes c.RGBA() >> 8 gives: <<red, green, blue, alpha>>
ZeroPixel == <<0, 0, 0, 0>>

\* whether the point (X, Y) lies in image.Bounds()
InBounds(image, X, Y) ==
  /\ image.minX <= X /\ X < image.minX + image.w
  /\ image.minY <= Y /\ Y < image.minY + image.h

\* image.At(X, Y) of an *image.RGBA whose pixels are px: X and Y are coordinates
\* of the image's plane, not offsets from Bounds().Min; color.RGBA{} outside
At(image, px, X, Y) ==
  IF InBounds(image, X, Y) THEN px[<<X - image.minX, Y - image.minY>>] ELSE ZeroPixel

\* rgba := image.NewRGBA(img.Bounds()); draw.Draw(rgba, img.Bounds(), img,
\* img.Bounds().Min, draw.Src): the pixels of rgba, which has the bounds of img
ConvertRGBA(image, px) ==
  [cr \in DOMAIN px |-> At(image, px, image.minX + cr[1], image.minY + cr[2])]

\* srcRect.Min of image.Rect(left, top, min(left+64, w), min(top+64, h)):
\* image.Rect swaps the coordinates of an axis given out of order
SrcRectMin(left, top, w, h) ==
  LET x1 == IF left + TileSize < w THEN left + TileSize ELSE w
      y1 == IF top + TileSize < h THEN top + TileSize ELSE h
  IN  <<IF left <= x1 THEN left ELSE x1, IF top <= y1 THEN top ELSE y1>>

\* tileImg after draw.Draw(tileImg, tileRect, img, sp, draw.Src): the point
\* (x, y) of the tile takes the pixel of img at sp + (x, y) where img has one,
\* and keeps the zero of image.NewRGBA elsewhere
DrawTile(image, px, sp) ==
  [xy \in (0..(TileSize - 1)) \X (0..(TileSize - 1)) |->
     IF InBounds(image, sp[1] + xy[1], sp[2] + xy[2])
     THEN At(image, px, sp[1] + xy[1], sp[2] + xy[2])
     ELSE ZeroPixel]

\* the bytes appended to blue, green, red and alpha by the loops over y and x
Plane(tileImg, channel) ==
  [k \in 1..(TileSize * TileSize) |->
     tileImg[<<(k - 1) % TileSize, (k - 1) \div TileSize>>][channel]]

\* planeData := append(append(blue, green...), append(red, alpha...)...) for
\* the tile (tx, ty)
PlaneData(image, px, tx, ty) ==
  LET left    == tx * TileSize
      top     == ty * TileSize
      tileImg == DrawTile(image, px, SrcRectMin(left, top, image.w, image.h))
  IN  Plane(tileImg, 3) \o Plane(tileImg, 2) \o Plane(tileImg, 1) \o Plane(tileImg, 4)

-----------------------------------------------------------------------------
(* pkg/xmlhelper: XMLNode.ToString *)

XMLNode(tag, attrs, children, text) ==
  [Tag |-> tag, Attrs |-> attrs, Children |-> children, Text |-> text]

\* the orders in which  for k, v := range n.Attrs  may visit the keys: Go leaves
\* the iteration order of a map unspecified, and it may differ between two loops
RangeOrders(attrs) ==
  LET keys == DOMAIN attrs
  IN  {p \in [1..Cardinality(keys) -> keys] : \A i, j \in DOMAIN p : i # j => p[i] # p[j]}

RECURSIVE AttrString(_, _)
\* attrs += fmt.Sprintf(` %s="%s"`, k, v), over the keys in the order p
AttrString(attrs, p) ==
  IF p = <<>> THEN ""
  ELSE " " \o Head(p) \o "=\"" \o attrs[Head(p)] \o "\"" \o AttrString(attrs, Tail(p))

\* fmt.Sprintf("<%s%s/>") or fmt.Sprintf("<%s%s>%s</%s>")
RenderNode(tag, attrStr, inner) ==
  IF inner = "" THEN "<" \o tag \o attrStr \o "/>"
  ELSE "<" \o tag \o attrStr \o ">" \o inner \o "</" \o tag \o ">"

RECURSIVE XMLToString(_, _)
\* the strings n.ToString(indent) may return, one for each iteration order of
\* the attribute maps of n and of its children
XMLToString(n, indent) ==
  LET RECURSIVE Inner(_, _)
      \* inner, after the children from i on have been appended to acc
      Inner(acc, i) ==
        IF i > Len(n.Children) THEN {acc}
        ELSE UNION {Inner(acc \o "\n" \o indent \o "  " \o c, i + 1) :
                      c \in XMLToString(n.Children[i], indent \o "  ")}
  IN  {RenderNode(n.Tag, AttrString(n.Attrs, p), inner) :
         p \in RangeOrders(n.Attrs), inner \in Inner(n.Text, 1)}


-----------------------------------------------------------------------------
(* path/filepath and os, on relative paths held as sequences of elements *)

RECURSIVE CleanFrom(_, _)
\* filepath.Clean: empty and "." elements dropped, "x/.." resolved; the empty
\* sequence is the path "."
CleanFrom(done, rest) ==
  IF rest = <<>> THEN done
  ELSE LET e == Head(rest)
       IN  IF e = "" \/ e = "."
           THEN CleanFrom(done, Tail(rest))
           ELSE IF e = ".." /\ done # <<>> /\ done[Len(done)] # ".."
                THEN CleanFrom(SubSeq(done, 1, Len(done) - 1), Tail(rest))
                ELSE CleanFrom(Append(done, e), Tail(rest))

\* filepath.Join(a, b...)
Join(a, b) == CleanFrom(<<>>, a \o b)

\* path + suffix, as in layerPath + ".icc"
WithSuffix(path, suffix) ==
  IF path = <<>> THEN <<suffix>>
  ELSE [path EXCEPT ![Len(path)] = path[Len(path)] \o suffix]

\* filepath.Base(path)
Base(path) == IF path = <<>> THEN "." ELSE path[Len(path)]

IsPrefix(a, b) == Len(a) <= Len(b) /\ SubSeq(b, 1, Len(a)) = a

\* os.MkdirAll(path): the directory and its parents exist afterwards
MkdirAll(files, path) == files \cup {SubSeq(path, 1, k) : k \in 1..Len(path)}

\* ioutil.WriteFile(path, ...)
WriteFile(files, path) == files \cup {path}

\* os.RemoveAll(dir): the empty path is left alone (nil is returned), a path
\* ending in "." is refused with EINVAL; the error is ignored either way
RemoveAll(files, dir) ==
  IF dir = <<>> \/ dir[Len(dir)] = "." THEN files
  ELSE {f \in files : ~IsPrefix(CleanFrom(<<>>, dir), f)}

-----------------------------------------------------------------------------
(* pkg/document: the document and its construction *)

\* uuid.New().String(): the n-th identifier handed out, a string with a hyphen
NewUUID(n) == <<97 + n, 45, 97 + n>>

\* "{" + uuid + "}"
Braced(u) == <<123>> \o u \o <<125>>

\* NewKritaDocument(width, height)
NewKritaDocument(width, height) ==
  [Width |-> width, Height |-> height, Layers |-> <<>>, TempDir |-> <<"krita_temp">>]

\* layers.FromText: a ShapeLayer of content type "text", no LayerStyle
FromText(name, n) == ShapeLayer("text", name, NilStyle, Braced(NewUUID(n)), NewUUID(n + 1))

\* layers.FromShapes
FromShapes(name, n) == ShapeLayer("shape", name, NilStyle, Braced(NewUUID(n)), NewUUID(n + 1))

\* a value in doc.Layers that is neither *ShapeLayer nor *PaintLayer
OtherLayer == [kind |-> "other"]

\* the working directories a caller leaves or sets: the default and ""
TempDirs == {<<"krita_temp">>, <<>>}

\* the images handed to AddImageLayer: 65 x 65 pixels, or none
SaveImages == {Image(0, 0, TileSize + 1, TileSize + 1), NilImage}

\* the name the caller gives the layer added at position i: "L1", "L2", ...
LayerNameAt(i) == <<76, 48 + i>>

-----------------------------------------------------------------------------
(* pkg/document: KritaDocument.Save *)

\* one archive member: zf.Create(name) and, when complete, all of w.Write(data)
Member(name, data, complete) == [name |-> name, data |-> data, complete |-> complete]

\* what writeZipFile may do: succeed, fail in zf.Create, fail in w.Write
ZipOutcomes == {"ok", "createErr", "writeErr"}

\* the archive after writeZipFile(zf, name, data) with outcome o
writeZipFile(z, name, data, o) ==
  CASE o = "ok"       -> Append(z, Member(name, data, TRUE))
    [] o = "writeErr" -> Append(z, Member(name, data, FALSE))
    [] OTHER          -> z

\* the layers before i for which the loop of Save calls uuid.New()
NeedsUUID(l) == (l.kind = "shape" /\ l.UUID = <<>>) \/ l.kind = "paint"

UUIDsBefore(layers, i) == Cardinality({j \in 1..(i - 1) : NeedsUUID(layers[j])})

\* the layer at i after the loop: a ShapeLayer with an empty UUID is given one
PreparedLayer(layers, i, n) ==
  LET l == layers[i]
  IN  IF l.kind = "shape" /\ l.UUID = <<>>
      THEN [l EXCEPT !.UUID = Braced(NewUUID(n + UUIDsBefore(layers, i)))]
      ELSE l

\* fmt.Sprintf("layer%d", i+2) for the 0-based i; idx is 1-based
LayerFileName(idx) == "layer" \o ToString(idx + 1)

\* the LayerInfo appended for the layer at idx
PreparedInfo(layers, idx, n) ==
  LET l == PreparedLayer(layers, idx, n)
  IN  CASE l.kind = "shape" -> LayerInfo(l, l.UUID, LayerFileName(idx))
        [] l.kind = "paint" ->
             LayerInfo(l, Braced(NewUUID(n + UUIDsBefore(layers, idx))), LayerFileName(idx))
        [] OTHER -> LayerInfo(l, <<>>, "")

\* createMainDoc: the layer element built for one LayerInfo (none for a value
\* that is neither layer type)
ManifestLayer(info) ==
  LET l == info.Layer
  IN  CASE l.kind = "shape" ->
             IF ~l.LayerStyle.nil
             THEN <<[nodetype |-> "shapelayer", filename |-> info.LayerName, name |-> l.Name,
                     uuid |-> info.UUID, layerstyle |-> Braced(l.LayerStyleUUID)]>>
             ELSE <<[nodetype |-> "shapelayer", filename |-> info.LayerName, name |-> l.Name,
                     uuid |-> info.UUID]>>
        [] l.kind = "paint" ->
             <<[nodetype |-> "paintlayer", filename |-> info.LayerName, name |-> l.Name,
                uuid |-> info.UUID]>>
        [] OTHER -> <<>>

\* createMainDoc(layerInfos): the IMAGE attributes and the layer elements
createMainDoc(d, infos) ==
  [type |-> "maindoc", layer |-> 0, width |-> d.Width, height |-> d.Height,
   layers |-> Concat([i \in 1..Len(infos) |-> ManifestLayer(infos[i])])]

\* GenerateSVGContent(layer, doc.Width, doc.Height)
GenerateSVGContent(l, idx, d) ==
  [type |-> "svg", layer |-> idx, name |-> l.Name, width |-> d.Width, height |-> d.Height]

\* the three files of a paint layer in the order icc, default pixel, tiles
PaintFilesReversed(layerPath, idx, image) ==
  << <<WithSuffix(layerPath, ".icc"), [type |-> "icc", layer |-> idx]>>,
     <<WithSuffix(layerPath, ".defaultpixel"),
       [type |-> "defaultpixel", layer |-> idx, bytes |-> <<0, 0, 0, 0>>]>>,
     <<layerPath, [type |-> "tiles", layer |-> idx, w |-> image.w, h |-> image.h,
                   DATA |-> TileCount(image.w) * TileCount(image.h)]>> >>

\* filesToAdd := []string{layerPath, defaultPixelPath, iccPath}, each with
\* the content staged for it
PaintFiles(layerPath, idx, image) ==
  << <<layerPath, [type |-> "tiles", layer |-> idx, w |-> image.w, h |-> image.h,
                   DATA |-> TileCount(image.w) * TileCount(image.h)]>>,
     <<WithSuffix(layerPath, ".defaultpixel"),
       [type |-> "defaultpixel", layer |-> idx, bytes |-> <<0, 0, 0, 0>>]>>,
     <<WithSuffix(layerPath, ".icc"), [type |-> "icc", layer |-> idx]>> >>

\* createPreview: the image the thumbnail is scaled from
PreviewSource(d) ==
  LET n == Len(d.Layers)
  IN  IF n > 0 /\ d.Layers[n].kind = "paint" /\ ~d.Layers[n].Image.nil
      THEN [from |-> "layer", index |-> n]
      ELSE [from |-> "transparent", index |-> 0]

\* a scan that looks at the first layer only
HasStyleFirstOnly(infos) == Len(infos) > 0 /\ IsStyled(infos[1])

\* hasStyle: some layer is a ShapeLayer with a LayerStyle
HasStyle(infos) == \E i \in 1..Len(infos) : IsStyled(infos[i])

-----------------------------------------------------------------------------
(* The variables a specification does not use stay at these values *)

SaveIdle ==
  /\ doc = <<>> /\ pc = "idle" /\ layerInfos = <<>> /\ zip = <<>>
  /\ zipState = "none" /\ outFile = "none" /\ fs = {} /\ ret = "none"
  /\ nextUUID = 0 /\ li = 0

StrIdle ==
  strIn = <<>> /\ strType = "" /\ strBuf0 = <<>> /\ strBuf = <<>> /\ strPc = "idle"

AslIdle ==
  aslInfos = <<>> /\ asl = <<>> /\ aslIdx = 0 /\ recStarts = <<>> /\ aslPc = "idle"

TileIdle ==
  /\ img = NilImage /\ tileEntries = <<>> /\ tilePos = <<0, 0>>
  /\ tileFile = NoFile /\ tilePc = "idle"
  /\ pix = <<>> /\ planeData = <<>>

XmlIdle == node = <<>> /\ xmlOut1 = "" /\ xmlOut2 = "" /\ xmlPc = "idle"

-----------------------------------------------------------------------------
(* SpecStr: writeASLString applied to a string, a mode and a buffer *)

\* the bytes strings are built from: a letter, NUL and a byte above 127
StrAlphabet == {65, 0, 200}

StrInit ==
  /\ strIn \in SeqsUpTo(StrAlphabet, MaxStrLen)
  /\ strType \in {"embedded", "key", "plain"}
  /\ strBuf0 \in {<<>>, <<9, 9, 9>>}
  /\ strBuf = strBuf0
  /\ strPc = "call"
  /\ SaveIdle /\ AslIdle /\ TileIdle /\ XmlIdle

StrWrite ==
  /\ strPc = "call"
  /\ strBuf' = writeASLString(strBuf, strIn, strType)
  /\ strPc' = "done"
  /\ UNCHANGED <<strIn, strType, strBuf0, saveVars, aslVars, tileVars, xmlVars>>

StrNext == StrWrite

SpecStr == StrInit /\ [][StrNext]_vars

-----------------------------------------------------------------------------
(* SpecASL: CreateLayerStylesASL, one step for each iteration of its style loop *)

\* names "", "a", "aa", ...
AslNames == {[i \in 1..k |-> 97] : k \in 0..MaxNameLen}

\* styles with the master switch on and the stroke effect off, and the reverse
AslStyles == {LayerStyle(TRUE, FALSE), LayerStyle(FALSE, TRUE)}

\* style identifiers: the empty string and "a-b"
AslStyleUUIDs == {<<>>, <<97, 45, 98>>}

\* styled shape layers, unstyled shape layers and a paint layer
AslLayers ==
  {ShapeLayer("shape", n, st, <<>>, u) : n \in AslNames, st \in AslStyles, u \in AslStyleUUIDs}
  \cup {ShapeLayer("shape", n, NilStyle, <<>>, <<>>) : n \in AslNames}
  \cup {PaintLayer(<<>>, NilImage)}

AslInit ==
  /\ \E ls \in SeqsUpTo(AslLayers, MaxAslLayers) :
       aslInfos = [i \in 1..Len(ls) |-> LayerInfo(ls[i], <<>>, "layer" \o ToString(i + 1))]
  /\ asl = <<>> /\ aslIdx = 0 /\ recStarts = <<>> /\ aslPc = "header"
  /\ SaveIdle /\ StrIdle /\ TileIdle /\ XmlIdle

\* the header and the style count
AslHeader ==
  /\ aslPc = "header"
  /\ asl' = ASLHeader \o U32BE(NumStyles(aslInfos))
  /\ aslIdx' = 1
  /\ aslPc' = "loop"
  /\ UNCHANGED <<aslInfos, recStarts, saveVars, strVars, tileVars, xmlVars>>

\* an iteration that continues: not a ShapeLayer, or no LayerStyle
AslSkip ==
  /\ aslPc = "loop" /\ aslIdx <= Len(aslInfos)
  /\ ~IsStyled(aslInfos[aslIdx])
  /\ aslIdx' = aslIdx + 1
  /\ UNCHANGED <<aslInfos, asl, recStarts, aslPc, saveVars, strVars, tileVars, xmlVars>>

\* an iteration that writes a record; recStarts logs its styleStartPos
AslRecord ==
  /\ aslPc = "loop" /\ aslIdx <= Len(aslInfos)
  /\ IsStyled(aslInfos[aslIdx])
  /\ recStarts' = Append(recStarts, Len(asl))
  /\ asl' = WriteStyleRecord(asl, aslInfos[aslIdx].Layer)
  /\ aslIdx' = aslIdx + 1
  /\ UNCHANGED <<aslInfos, aslPc, saveVars, strVars, tileVars, xmlVars>>

\* return asl.Bytes(), nil
AslReturn ==
  /\ aslPc = "loop" /\ aslIdx > Len(aslInfos)
  /\ aslPc' = "done"
  /\ UNCHANGED <<aslInfos, asl, aslIdx, recStarts, saveVars, strVars, tileVars, xmlVars>>

AslNext == AslHeader \/ AslSkip \/ AslRecord \/ AslReturn

SpecASL == AslInit /\ [][AslNext]_vars

-----------------------------------------------------------------------------
(* SpecTile: SaveKritaLayer, one step for each tile *)

\* widths and heights: whole numbers of tiles, and one pixel more
TileDims == {d \in 0..(TileSize * MaxAxisTiles) : d % TileSize \in {0, 1}}

\* the corner img.Bounds().Min of the images
TileOrigins == {<<0, 0>>, <<3, 5>>}

TileInit ==
  /\ img \in {Image(o[1], o[2], w, h) : o \in TileOrigins, w \in TileDims, h \in TileDims}
  /\ tileEntries = <<>> /\ tilePos = <<0, 0>> /\ tileFile = NoFile /\ tilePc = "loop"
  /\ pix = <<>> /\ planeData = <<>>
  /\ SaveIdle /\ StrIdle /\ AslIdle /\ XmlIdle

\* for ty := 0; ty < ny; ty++ { for tx := 0; tx < nx; tx++ {
TileLoopDone == TileCount(img.w) = 0 \/ tilePos[1] >= TileCount(img.h)

\* a tile whose plane buffer lzf.Compress compresses
TileCompressed ==
  /\ tilePc = "loop" /\ ~TileLoopDone
  /\ \E c \in 1..MaxCompressedLen :
       tileEntries' = Append(tileEntries, TileEntry(tilePos[2], tilePos[1], CompressOk(c)))
  /\ tilePos' = NextTilePos(tilePos, TileCount(img.w))
  /\ UNCHANGED <<img, tileFile, tilePc, pix, planeData, saveVars, strVars, aslVars, xmlVars>>

\* a tile for which lzf.Compress returns an error
TileCompressFailed ==
  /\ tilePc = "loop" /\ ~TileLoopDone
  /\ tileEntries' = Append(tileEntries, TileEntry(tilePos[2], tilePos[1], CompressErr))
  /\ tilePos' = NextTilePos(tilePos, TileCount(img.w))
  /\ UNCHANGED <<img, tileFile, tilePc, pix, planeData, saveVars, strVars, aslVars, xmlVars>>

\* return ioutil.WriteFile(outputPath, outBuf.Bytes(), 0644)
TileWriteFile ==
  /\ tilePc = "loop" /\ TileLoopDone
  /\ \/ tileFile' = TileFile(tileEntries) /\ tilePc' = "ok"
     \/ tileFile' = NoFile /\ tilePc' = "err"
  /\ UNCHANGED <<img, tileEntries, tilePos, pix, planeData, saveVars, strVars, aslVars, xmlVars>>

TileNext == TileCompressed \/ TileCompressFailed \/ TileWriteFile

SpecTile == TileInit /\ [][TileNext]_vars

-----------------------------------------------------------------------------
(* SpecPlanes: addPaintLayerToZip's conversion and SaveKritaLayer's plane     *)
(* buffers, on images with pixels                                            *)

\* widths and heights: one pixel, one tile, one tile and a pixel
PlaneDims == {1, TileSize, TileSize + 1}

\* img.Bounds().Min: the origin, and the corners of two sub-images
PlaneOrigins == {<<0, 0>>, <<3, 5>>, <<-2, -1>>}

\* two ways of filling an image: the pixel at column c, row r
PixelPatterns ==
  {[c \in 0..TileSize, r \in 0..TileSize |-> <<c + 1, r + 101, c + r + 1, 255>>],
   [c \in 0..TileSize, r \in 0..TileSize |-> <<250 - c, 2 * r, (3 * c + 5 * r) % 256, 128 + c>>]}

PlaneInit ==
  /\ \E o \in PlaneOrigins, w \in PlaneDims, h \in PlaneDims, f \in PixelPatterns :
       /\ img = Image(o[1], o[2], w, h)
       /\ pix = [cr \in (0..(w - 1)) \X (0..(h - 1)) |-> f[cr[1], cr[2]]]
  /\ tileEntries = <<>> /\ tilePos = <<0, 0>> /\ tileFile = NoFile /\ tilePc = "convert"
  /\ planeData = <<>>
  /\ SaveIdle /\ StrIdle /\ AslIdle /\ XmlIdle

\* addPaintLayerToZip copies the image into an RGBA image, calls SaveKritaLayer
PlaneConvert ==
  /\ tilePc = "convert"
  /\ pix' = ConvertRGBA(img, pix)
  /\ tilePc' = "loop"
  /\ UNCHANGED <<img, tileEntries, tilePos, tileFile, planeData,
                 saveVars, strVars, aslVars, xmlVars>>

\* the body of the tile loop up to planeData
PlaneBuild ==
  /\ tilePc = "loop" /\ ~TileLoopDone
  /\ planeData' = PlaneData(img, pix, tilePos[2], tilePos[1])
  /\ tilePc' = "built"
  /\ UNCHANGED <<img, tileEntries, tilePos, tileFile, pix,
                 saveVars, strVars, aslVars, xmlVars>>

\* lzf.Compress, the entry appended, the next tile
PlaneAppend ==
  /\ tilePc = "built"
  /\ \E r \in {CompressErr, CompressOk(1)} :
       tileEntries' = Append(tileEntries, TileEntry(tilePos[2], tilePos[1], r))
  /\ tilePos' = NextTilePos(tilePos, TileCount(img.w))
  /\ tilePc' = "loop"
  /\ UNCHANGED <<img, tileFile, pix, planeData, saveVars, strVars, aslVars, xmlVars>>

PlaneNext == PlaneConvert \/ PlaneBuild \/ PlaneAppend \/ TileWriteFile

SpecPlanes == PlaneInit /\ [][PlaneNext]_vars

-----------------------------------------------------------------------------
(* SpecXML: the same XMLNode serialised twice *)

XmlAttrKeys == {"name", "uuid", "x"}

\* attribute maps with at most MaxAttrs keys
XmlAttrMaps(values) ==
  UNION {[K -> values] : K \in {K \in SUBSET XmlAttrKeys : Cardinality(K) <= MaxAttrs}}

XmlLeaves == {XMLNode("layer", a, <<>>, "") : a \in XmlAttrMaps({"0", "1"})}

XmlNodes ==
  XmlLeaves \cup {XMLNode("layers", a, <<c>>, "") : a \in XmlAttrMaps({"0"}), c \in XmlLeaves}

XmlInit ==
  /\ node \in XmlNodes
  /\ xmlOut1 = "" /\ xmlOut2 = "" /\ xmlPc = "first"
  /\ SaveIdle /\ StrIdle /\ AslIdle /\ TileIdle

XmlFirst ==
  /\ xmlPc = "first"
  /\ xmlOut1' \in XMLToString(node, "")
  /\ xmlPc' = "second"
  /\ UNCHANGED <<node, xmlOut2, saveVars, strVars, aslVars, tileVars>>

XmlSecond ==
  /\ xmlPc = "second"
  /\ xmlOut2' \in XMLToString(node, "")
  /\ xmlPc' = "done"
  /\ UNCHANGED <<node, xmlOut1, saveVars, strVars, aslVars, tileVars>>

XmlNext == XmlFirst \/ XmlSecond

SpecXML == XmlInit /\ [][XmlNext]_vars


-----------------------------------------------------------------------------
(* Spec: a caller builds a document, then calls Save once *)

Init ==
  /\ \E t \in TempDirs : doc = [NewKritaDocument(100, 80) EXCEPT !.TempDir = t]
  /\ pc = "build" /\ layerInfos = <<>> /\ zip = <<>>
  /\ zipState = "none" /\ outFile = "none" /\ fs = {} /\ ret = "none"
  /\ nextUUID = 0 /\ li = 0
  /\ StrIdle /\ AslIdle /\ TileIdle /\ XmlIdle

pureVars == <<strVars, aslVars, tileVars, xmlVars>>

CanAdd == pc = "build" /\ Len(doc.Layers) < MaxLayers

\* doc.Layers = append(doc.Layers, layer)
AppendLayer(l) == doc' = [doc EXCEPT !.Layers = Append(@, l)]

AddTextLayer ==
  /\ CanAdd
  /\ AppendLayer(FromText(LayerNameAt(Len(doc.Layers) + 1), nextUUID))
  /\ nextUUID' = nextUUID + 2
  /\ UNCHANGED <<pc, layerInfos, zip, zipState, outFile, fs, ret, li, pureVars>>

AddShapeLayer ==
  /\ CanAdd
  /\ AppendLayer(FromShapes(LayerNameAt(Len(doc.Layers) + 1), nextUUID))
  /\ nextUUID' = nextUUID + 2
  /\ UNCHANGED <<pc, layerInfos, zip, zipState, outFile, fs, ret, li, pureVars>>

AddImageLayer ==
  /\ CanAdd
  /\ \E image \in SaveImages :
       AppendLayer(PaintLayer(LayerNameAt(Len(doc.Layers) + 1), image))
  /\ UNCHANGED <<pc, layerInfos, zip, zipState, outFile, fs, ret, nextUUID, li, pureVars>>

\* the caller sets LayerStyle = NewLayerStyle() on the shape layer added last
\* (NewLayerStyle draws an identifier of its own)
AttachLayerStyle ==
  /\ pc = "build" /\ Len(doc.Layers) > 0
  /\ LET n == Len(doc.Layers)
         l == doc.Layers[n]
     IN  /\ l.kind = "shape" /\ l.ContentType = "shape" /\ l.UUID # <<>> /\ l.LayerStyle.nil
         /\ doc' = [doc EXCEPT !.Layers[n].LayerStyle = LayerStyle(TRUE, FALSE)]
  /\ nextUUID' = nextUUID + 1
  /\ UNCHANGED <<pc, layerInfos, zip, zipState, outFile, fs, ret, li, pureVars>>

\* the caller appends to the exported Layers field: a ShapeLayer literal whose
\* identifiers are empty, or a value that is no layer type
AppendToLayers ==
  /\ CanAdd
  /\ \E l \in {ShapeLayer("shape", LayerNameAt(Len(doc.Layers) + 1), NilStyle, <<>>, <<>>),
               OtherLayer} : AppendLayer(l)
  /\ UNCHANGED <<pc, layerInfos, zip, zipState, outFile, fs, ret, nextUUID, li, pureVars>>

\* return err once the deferred calls are registered
ReturnErr == ret' = "err" /\ pc' = "defers"

\* go on to next after a writeZipFile with outcome o, or return its error
Continue(o, next) == IF o = "ok" THEN pc' = next /\ ret' = ret ELSE ReturnErr

\* the working directories Save creates first
StagingDirs == <<"layers", "annotations", "animation">>

RECURSIVE MkdirFirst(_, _, _)
\* the files after the first k calls of os.MkdirAll(filepath.Join(TempDir, dir))
MkdirFirst(files, tempDir, k) ==
  IF k = 0 THEN files
  ELSE MkdirAll(MkdirFirst(files, tempDir, k - 1), Join(tempDir, <<StagingDirs[k]>>))

\* Save is called: the three MkdirAll, the first k of which succeed
MkdirStaging ==
  /\ pc = "build"
  /\ \E k \in 0..3 :
       /\ fs' = MkdirFirst(fs, doc.TempDir, k)
       /\ IF k = 3 THEN pc' = "prepare" /\ ret' = ret
                   ELSE pc' = "done" /\ ret' = "err"
  /\ UNCHANGED <<doc, layerInfos, zip, zipState, outFile, nextUUID, li, pureVars>>

\* the loop that builds layerInfos
PrepareLayerInfos ==
  /\ pc = "prepare"
  /\ LET n == Len(doc.Layers)
     IN  /\ layerInfos' = [i \in 1..n |-> PreparedInfo(doc.Layers, i, nextUUID)]
         /\ doc' = [doc EXCEPT !.Layers = [i \in 1..n |-> PreparedLayer(doc.Layers, i, nextUUID)]]
         /\ nextUUID' = nextUUID + UUIDsBefore(doc.Layers, n + 1)
  /\ pc' = "create"
  /\ UNCHANGED <<zip, zipState, outFile, fs, ret, li, pureVars>>

\* os.Create(outputPath), zip.NewWriter and the two defers
CreateArchive ==
  /\ pc = "create"
  /\ \/ outFile' = "open" /\ zipState' = "open" /\ pc' = "mimetype" /\ ret' = ret
     \/ pc' = "done" /\ ret' = "err" /\ UNCHANGED <<outFile, zipState>>
  /\ UNCHANGED <<doc, layerInfos, zip, fs, nextUUID, li, pureVars>>

\* 1. mimetype
WriteMimetype ==
  /\ pc = "mimetype"
  /\ \E o \in ZipOutcomes :
       /\ zip' = writeZipFile(zip, <<"mimetype">>, [type |-> "mimetype", layer |-> 0], o)
       /\ Continue(o, "documentinfo")
  /\ UNCHANGED <<doc, layerInfos, zipState, outFile, fs, nextUUID, li, pureVars>>

\* 2. documentinfo.xml
WriteDocumentInfo ==
  /\ pc = "documentinfo"
  /\ \E o \in ZipOutcomes :
       /\ zip' = writeZipFile(zip, <<"documentinfo.xml">>,
                              [type |-> "documentinfo", layer |-> 0], o)
       /\ Continue(o, "maindoc")
  /\ UNCHANGED <<doc, layerInfos, zipState, outFile, fs, nextUUID, li, pureVars>>

\* 3. maindoc.xml
WriteMainDoc ==
  /\ pc = "maindoc"
  /\ \E o \in ZipOutcomes :
       /\ zip' = writeZipFile(zip, <<"maindoc.xml">>, createMainDoc(doc, layerInfos), o)
       /\ Continue(o, "layers")
  /\ li' = 1
  /\ UNCHANGED <<doc, layerInfos, zipState, outFile, fs, nextUUID, pureVars>>

\* 4. processLayers, a *layers.ShapeLayer: addShapeLayerToZip
ProcessShapeLayer ==
  /\ pc = "layers" /\ li <= Len(layerInfos)
  /\ layerInfos[li].Layer.kind = "shape"
  /\ LET info    == layerInfos[li]
         dir     == info.LayerName \o ".shapelayer"
         dirName == Join(doc.TempDir, <<"layers", dir>>)
         svgPath == Join(dirName, <<"content.svg">>)
         svg     == GenerateSVGContent(info.Layer, li, doc)
     IN  \E o \in {"mkdirErr", "writeFileErr", "readFileErr"} \cup ZipOutcomes :
           /\ fs' = CASE o = "mkdirErr"     -> fs
                      [] o = "writeFileErr" -> MkdirAll(fs, dirName)
                      [] OTHER              -> WriteFile(MkdirAll(fs, dirName), svgPath)
           /\ zip' = IF o \in ZipOutcomes
                     THEN writeZipFile(zip, Join(<<"layers">>, <<dir, "content.svg">>), svg, o)
                     ELSE zip
           /\ IF o = "ok" THEN li' = li + 1 /\ UNCHANGED <<pc, ret>>
                          ELSE ReturnErr /\ li' = li
  /\ UNCHANGED <<doc, layerInfos, zipState, outFile, nextUUID, pureVars>>

RECURSIVE AddFiles(_, _, _)
\* the archive after the first k of files went in whole
AddFiles(z, files, k) ==
  IF k = 0 THEN z
  ELSE writeZipFile(AddFiles(z, files, k - 1), Join(<<"layers">>, <<Base(files[k][1])>>),
                    files[k][2], "ok")

\* 4. processLayers, a *layers.PaintLayer: addPaintLayerToZip
ProcessPaintLayer ==
  /\ pc = "layers" /\ li <= Len(layerInfos)
  /\ layerInfos[li].Layer.kind = "paint"
  /\ LET info      == layerInfos[li]
         image     == info.Layer.Image
         layerPath == Join(doc.TempDir, <<"layers", info.LayerName>>)
         files     == PaintFiles(layerPath, li, image)
     IN  \* layer.Image.(image.Image) fails: "invalid image type"
         \/ /\ image.nil
            /\ ReturnErr
            /\ UNCHANGED <<zip, fs, li>>
         \* the first s of the tile file, the default pixel and the profile are
         \* staged, then SaveKritaLayer, WriteFile or ReadFile("layer3.icc") fails
         \/ /\ ~image.nil
            /\ \E s \in 0..2 : fs' = fs \cup {files[j][1] : j \in 1..s}
            /\ ReturnErr
            /\ UNCHANGED <<zip, li>>
         \* all staged; k files go into the archive, then ReadFile or zf.Create
         \* fails ("createErr") or w.Write fails ("writeErr")
         \/ /\ ~image.nil
            /\ fs' = fs \cup {files[j][1] : j \in 1..3}
            /\ \E k \in 0..2, o \in {"createErr", "writeErr"} :
                 zip' = writeZipFile(AddFiles(zip, files, k),
                                     Join(<<"layers">>, <<Base(files[k + 1][1])>>),
                                     files[k + 1][2], o)
            /\ ReturnErr
            /\ li' = li
         \* all staged and added
         \/ /\ ~image.nil
            /\ fs' = fs \cup {files[j][1] : j \in 1..3}
            /\ zip' = AddFiles(zip, files, 3)
            /\ li' = li + 1
            /\ UNCHANGED <<pc, ret>>
  /\ UNCHANGED <<doc, layerInfos, zipState, outFile, nextUUID, pureVars>>

\* 4. processLayers, a value the type switch has no case for: nothing is done
ProcessOtherLayer ==
  /\ pc = "layers" /\ li <= Len(layerInfos)
  /\ layerInfos[li].Layer.kind \notin {"shape", "paint"}
  /\ li' = li + 1
  /\ UNCHANGED <<doc, pc, layerInfos, zip, zipState, outFile, fs, ret, nextUUID, pureVars>>

\* processLayers returns nil
ProcessLayersReturn ==
  /\ pc = "layers" /\ li > Len(layerInfos)
  /\ pc' = "animation"
  /\ UNCHANGED <<doc, layerInfos, zip, zipState, outFile, fs, ret, nextUUID, li, pureVars>>

\* 5. the animation metadata
WriteAnimation ==
  /\ pc = "animation"
  /\ \E o \in ZipOutcomes :
       /\ zip' = writeZipFile(zip, Join(doc.TempDir, <<"animation", "index.xml">>),
                              [type |-> "animation", layer |-> 0], o)
       /\ Continue(o, "icc")
  /\ UNCHANGED <<doc, layerInfos, zipState, outFile, fs, nextUUID, li, pureVars>>

\* 6. the colour profile: ReadFile("layer3.icc") may fail
WriteAnnotationsICC ==
  /\ pc = "icc"
  /\ \/ ReturnErr /\ zip' = zip
     \/ \E o \in ZipOutcomes :
          /\ zip' = writeZipFile(zip, Join(doc.TempDir, <<"annotations", "icc">>),
                                 [type |-> "icc", layer |-> 0], o)
          /\ Continue(o, "preview")
  /\ UNCHANGED <<doc, layerInfos, zipState, outFile, fs, nextUUID, li, pureVars>>

\* 7. createPreview: png.Encode may fail
CreatePreview ==
  /\ pc = "preview"
  /\ \/ ReturnErr /\ zip' = zip
     \/ \E o \in ZipOutcomes :
          /\ zip' = writeZipFile(zip, <<"preview.png">>,
                                 [type |-> "preview", layer |-> 0, source |-> PreviewSource(doc)], o)
          /\ Continue(o, "styles")
  /\ UNCHANGED <<doc, layerInfos, zipState, outFile, fs, nextUUID, li, pureVars>>

\* 8. the layer styles, if any layer has one
WriteLayerStyles ==
  /\ pc = "styles"
  /\ IF HasStyle(layerInfos)
     THEN \E o \in ZipOutcomes :
            /\ zip' = writeZipFile(zip, Join(doc.TempDir, <<"annotations", "layerstyles.asl">>),
                                   [type |-> "asl", layer |-> 0,
                                    bytes |-> CreateLayerStylesASL(layerInfos)], o)
            /\ Continue(o, "finish")
     ELSE zip' = zip /\ pc' = "finish" /\ ret' = ret
  /\ UNCHANGED <<doc, layerInfos, zipState, outFile, fs, nextUUID, li, pureVars>>

\* the success message, os.RemoveAll(doc.TempDir), return nil
Finish ==
  /\ pc = "finish"
  /\ fs' = RemoveAll(fs, doc.TempDir)
  /\ ret' = "ok"
  /\ pc' = "defers"
  /\ UNCHANGED <<doc, layerInfos, zip, zipState, outFile, nextUUID, li, pureVars>>

\* the deferred calls, last registered first: zipWriter.Close() writes the
\* archive's directory, which may fail, and outFile.Close() closes the file; the
\* errors of both are dropped; Save has returned
RunDefers ==
  /\ pc = "defers"
  /\ zipState' \in {"closed", "closeFailed"}
  /\ outFile' = "closed"
  /\ pc' = "done"
  /\ UNCHANGED <<doc, layerInfos, zip, fs, ret, nextUUID, li, pureVars>>

Next ==
  \/ AddTextLayer \/ AddShapeLayer \/ AddImageLayer \/ AttachLayerStyle \/ AppendToLayers
  \/ MkdirStaging \/ PrepareLayerInfos \/ CreateArchive
  \/ WriteMimetype \/ WriteDocumentInfo \/ WriteMainDoc
  \/ ProcessShapeLayer \/ ProcessPaintLayer \/ ProcessOtherLayer \/ ProcessLayersReturn
  \/ WriteAnimation \/ WriteAnnotationsICC \/ CreatePreview \/ WriteLayerStyles
  \/ Finish \/ RunDefers

Spec == Init /\ [][Next]_vars


-----------------------------------------------------------------------------
(* Properties of Save's archive (Spec) *)

\* what a member holds and for which layer (0: the document)
Kinds(z) == [k \in 1..Len(z) |-> <<z[k].data.type, z[k].data.layer>>]

\* the members the layer at position i is to contribute
ExpectedForLayer(l, i) ==
  CASE l.kind = "shape" -> << <<"svg", i>> >>
    [] l.kind = "paint" -> << <<"tiles", i>>, <<"defaultpixel", i>>, <<"icc", i>> >>
    [] OTHER -> <<>>

\* the layers that are ShapeLayers carrying a LayerStyle, in document order
StyledLayers(layers) == SelectSeq(layers, LAMBDA l : l.kind = "shape" /\ ~l.LayerStyle.nil)

\* the members of a complete archive, in order
ExpectedMembers(layers) ==
  << <<"mimetype", 0>>, <<"documentinfo", 0>>, <<"maindoc", 0>> >>
  \o Concat([i \in 1..Len(layers) |-> ExpectedForLayer(layers[i], i)])
  \o << <<"animation", 0>>, <<"icc", 0>>, <<"preview", 0>> >>
  \o (IF StyledLayers(layers) # <<>> THEN << <<"asl", 0>> >> ELSE <<>>)

Saved == pc = "done" /\ ret = "ok"

\* C1: the members written so far are always the first members of the fixed
\* order (MIME marker, document info, manifest, each layer's members in document
\* order with tiles, default pixel, profile for a paint layer, animation
\* metadata, annotations profile, preview, style block only if a layer is
\* styled), and a Save that succeeded has written all of them, each in full
C1_MemberOrder ==
  /\ IsPrefix(Kinds(zip), ExpectedMembers(doc.Layers))
  /\ Saved => /\ Kinds(zip) = ExpectedMembers(doc.Layers)
              /\ \A k \in 1..Len(zip) : zip[k].complete

\* a Save that succeeded on a shape layer, a paint layer and a styled layer
C1_Witness ==
  /\ Saved
  /\ \E i \in 1..Len(doc.Layers) : doc.Layers[i].kind = "paint"
  /\ \E i \in 1..Len(doc.Layers) : doc.Layers[i].kind = "shape" /\ doc.Layers[i].LayerStyle.nil
  /\ StyledLayers(doc.Layers) # <<>>

\* the document of C2: a text layer, a shape layer, a paint layer, no styles
C2_Document ==
  /\ Len(doc.Layers) = 3
  /\ doc.Layers[1].kind = "shape" /\ doc.Layers[1].ContentType = "text"
  /\ doc.Layers[2].kind = "shape" /\ doc.Layers[2].ContentType = "shape"
  /\ doc.Layers[3].kind = "paint"
  /\ StyledLayers(doc.Layers) = <<>>

\* a member path layers/<name>.shapelayer/content.svg
IsShapeLayerSVG(name) ==
  /\ Len(name) = 3 /\ name[1] = "layers" /\ name[3] = "content.svg"
  /\ name[2] \in {LayerFileName(i) \o ".shapelayer" : i \in 1..MaxLayers}

\* C2: a successful Save of a text layer, a shape layer and a paint layer without
\* styles leaves exactly ten members: mimetype, documentinfo.xml, maindoc.xml,
\* one .shapelayer/content.svg, layers/layer4, layers/layer4.defaultpixel,
\* layers/layer4.icc, animation/index.xml, annotations/icc, preview.png, and no
\* layerstyles.asl
C2_EndToEndMembers ==
  (Saved /\ C2_Document) =>
    LET names == {zip[k].name : k \in 1..Len(zip)}
    IN  /\ Len(zip) = 10
        /\ Cardinality(names) = 10
        /\ { <<"mimetype">>, <<"documentinfo.xml">>, <<"maindoc.xml">>,
             <<"layers", "layer4">>, <<"layers", "layer4.defaultpixel">>,
             <<"layers", "layer4.icc">>, <<"animation", "index.xml">>,
             <<"annotations", "icc">>, <<"preview.png">> } \subseteq names
        /\ Cardinality({n \in names : IsShapeLayerSVG(n)}) = 1
        /\ \A n \in names : Base(n) # "layerstyles.asl"

\* C3: whatever TempDir is, the animation metadata, the annotations profile and
\* the style block are stored at animation/index.xml, annotations/icc and
\* annotations/layerstyles.asl, and no element of TempDir occurs in a member path
C3_FixedInternalPaths ==
  \A k \in 1..Len(zip) :
    LET m == zip[k]
    IN  /\ m.data.type = "animation" => m.name = <<"animation", "index.xml">>
        /\ (m.data.type = "icc" /\ m.data.layer = 0) => m.name = <<"annotations", "icc">>
        /\ m.data.type = "asl" => m.name = <<"annotations", "layerstyles.asl">>
        /\ \A i \in 1..Len(doc.TempDir), j \in 1..Len(m.name) : doc.TempDir[i] # m.name[j]

RECURSIVE RecordEnd(_, _, _)
\* the offset reached by reading n length-prefixed records from offset pos of
\* blob, -1 when a record runs past the end
RecordEnd(blob, pos, n) ==
  IF n = 0 THEN pos
  ELSE IF pos + 4 > Len(blob) THEN -1
  ELSE LET len == U32At(blob, pos)
       IN  IF pos + 4 + len > Len(blob) THEN -1
           ELSE RecordEnd(blob, pos + 4 + len, n - 1)

\* the display name read back from the record at offset start: after the length
\* field, "null", "Nm  " and "TEXT" come the string's length and its characters,
\* one every second byte, up to the two-byte terminator
RecordName(blob, start) ==
  LET n == U32At(blob, start + 16)
  IN  [j \in 1..((n - 2) \div 2) |-> blob[start + 20 + 2 * j - 1]]

\* the members holding a style block
StyleMembers == {k \in 1..Len(zip) : zip[k].data.type = "asl"}

\* C4: at most one style block is written; a Save that succeeded has written one
\* exactly when some layer carries a LayerStyle; its style_count (the u32 at
\* offset 12) is the number of styled layers, exactly that many records follow
\* and fill the blob, and the i-th record names the i-th styled layer
C4_StyleBlock ==
  /\ Cardinality(StyleMembers) <= 1
  /\ Saved => (StyleMembers # {} <=> StyledLayers(doc.Layers) # <<>>)
  /\ \A k \in StyleMembers :
       LET blob   == zip[k].data.bytes
           styled == StyledLayers(doc.Layers)
       IN  /\ U32At(blob, 12) = Len(styled)
           /\ RecordEnd(blob, 16, Len(styled)) = Len(blob)
           /\ \A i \in 1..Len(styled) :
                RecordName(blob, RecordEnd(blob, 16, i - 1))
                  = <<60>> \o styled[i].Name \o <<62, 32, 40, 101, 109, 98, 101, 100, 100, 101, 100, 41>>

\* a Save that succeeded on two styled layers and an unstyled shape layer
C4_Witness ==
  /\ Saved
  /\ Len(StyledLayers(doc.Layers)) = 2
  /\ \E i \in 1..Len(doc.Layers) : doc.Layers[i].kind = "shape" /\ doc.Layers[i].LayerStyle.nil
  /\ StyleMembers # {}

\* C10: when Save has returned a failure, no staged path is left and no
\* finalised archive that lacks members is left at the destination
C10_FailureCleanup ==
  (pc = "done" /\ ret = "err") =>
    /\ fs = {}
    /\ ~(outFile = "closed" /\ zipState = "closed"
         /\ Kinds(zip) # ExpectedMembers(doc.Layers))

\* the layer variants Save knows: *layers.ShapeLayer and *layers.PaintLayer
SupportedLayer(l) == l.kind \in {"shape", "paint"}

\* C11: Save does not report success for a document that holds a value that is
\* not one of the supported layer variants: such a Save returns a failure
C11_InvalidLayerFails ==
  Saved => \A i \in 1..Len(doc.Layers) : SupportedLayer(doc.Layers[i])

\* C12: no step of Save changes the document or any field of its layers
C12_SaveNeverMutates ==
  [][(pc # "build" \/ pc' # "build") => doc' = doc]_vars

\* the positions of the paint layers of the document
PaintPositions == {i \in 1..Len(doc.Layers) : doc.Layers[i].kind = "paint"}

\* the largest member of a non-empty set of numbers
MaxOf(S) == CHOOSE m \in S : \A n \in S : n <= m

\* C13: the preview is made from the image of the last paint layer in document
\* order when the document has a paint layer, wherever it sits, and from a
\* transparent canvas only when it has none
C13_PreviewSource ==
  \A k \in 1..Len(zip) :
    zip[k].data.type = "preview" =>
      zip[k].data.source =
        IF PaintPositions # {}
        THEN [from |-> "layer", index |-> MaxOf(PaintPositions)]
        ELSE [from |-> "transparent", index |-> 0]

\* Save has built its layerInfos
Prepared == pc \notin {"build", "prepare"} /\ Len(layerInfos) = Len(doc.Layers)

\* the name "layer<i+2>" of the layer at the 0-based index i = idx - 1
ExpectedFileName(idx) == "layer" \o ToString((idx - 1) + 2)

\* the layer elements, over all manifests written, that carry the file name of
\* the layer at idx
ManifestElements(idx) ==
  UNION {{z.data.layers[e] : e \in {e \in 1..Len(z.data.layers) :
                                      z.data.layers[e].filename = ExpectedFileName(idx)}} :
         z \in {zip[k] : k \in {k \in 1..Len(zip) : zip[k].data.type = "maindoc"}}}

\* the Idnt string read back from the record at offset start: it follows the
\* display name (length at start + 16, then the padded characters), the key
\* "Idnt" and the type "TEXT"
RecordIdnt(blob, start) ==
  LET n == U32At(blob, start + 16)
      q == start + 20 + n + ((4 - (n % 4)) % 4)
      m == U32At(blob, q + 8)
  IN  [j \in 1..((m - 2) \div 2) |-> blob[q + 12 + 2 * j - 1]]

\* how many of the layers up to idx carry a LayerStyle
StyledUpTo(idx) ==
  Cardinality({j \in 1..idx : doc.Layers[j].kind = "shape" /\ ~doc.Layers[j].LayerStyle.nil})

\* C14: once Save has prepared the layers, every layer has a non-empty
\* identifier, the uuid attribute of its manifest element is that identifier, and
\* for a styled layer the manifest's layerstyle reference is the style identifier
\* in braces and the Idnt string of its style record is the same identifier
\* with the hyphens removed after "%"
C14_IdentifiersConsistent ==
  Prepared =>
    \A i \in 1..Len(doc.Layers) :
      LET l  == doc.Layers[i]
          id == layerInfos[i].UUID
      IN  /\ id # <<>>
          /\ l.kind = "shape" => id = l.UUID
          /\ (\E k \in 1..Len(zip) : zip[k].data.type = "maindoc") =>
               /\ Cardinality(ManifestElements(i)) = 1
               /\ \A e \in ManifestElements(i) : e.uuid = id
          /\ (l.kind = "shape" /\ ~l.LayerStyle.nil) =>
               /\ \A e \in ManifestElements(i) :
                    /\ "layerstyle" \in DOMAIN e
                    /\ e.layerstyle = <<123>> \o l.LayerStyleUUID \o <<125>>
               /\ \A k \in StyleMembers :
                    RecordIdnt(zip[k].data.bytes,
                               RecordEnd(zip[k].data.bytes, 16, StyledUpTo(i) - 1))
                      = <<37>> \o SelectSeq(l.LayerStyleUUID, LAMBDA c : c # 45)

\* the names under layers/ that belong to the file name fn
MemberBases(fn) == {fn, fn \o ".defaultpixel", fn \o ".icc", fn \o ".shapelayer"}

\* C15: the layer at the 0-based index i is given the file name layer<i+2>; the
\* manifest holds one layer element for each layer, in document order, with that
\* file name; every member written for the layer lies under layers/ with that
\* name as its base; no two layers share a file name
C15_LayerFilenames ==
  Prepared =>
    /\ \A i \in 1..Len(doc.Layers) : layerInfos[i].LayerName = ExpectedFileName(i)
    /\ \A i, j \in 1..Len(doc.Layers) :
         i # j => layerInfos[i].LayerName # layerInfos[j].LayerName
    /\ \A k \in 1..Len(zip) :
         LET m == zip[k]
         IN  /\ m.data.type = "maindoc" =>
                  /\ Len(m.data.layers) = Len(doc.Layers)
                  /\ \A i \in 1..Len(m.data.layers) :
                       m.data.layers[i].filename = ExpectedFileName(i)
             /\ m.data.layer > 0 =>
                  /\ Len(m.name) >= 2
                  /\ m.name[1] = "layers"
                  /\ m.name[2] \in MemberBases(ExpectedFileName(m.data.layer))

\* C17: on the success path the archive is closed before the staging
\* directories are released and before success is reported: once Save has
\* released staging and set its result to success the archive is closed, and a
\* Save that reported success closed the archive without error
C17_CloseThenRelease ==
  /\ (pc = "defers" /\ ret = "ok") => (zipState = "closed" /\ outFile = "closed")
  /\ Saved => (zipState = "closed" /\ outFile = "closed")

-----------------------------------------------------------------------------
(* Properties of the style block encoder (SpecASL, SpecStr) *)

\* every record written so far: its length field holds the number of bytes from
\* the end of the field to the next record's field (or the end of the buffer),
\* and its body starts with "null"
C5_LengthsExact ==
  \A i \in 1..Len(recStarts) :
    LET start == recStarts[i]
        next  == IF i < Len(recStarts) THEN recStarts[i + 1] ELSE Len(asl)
    IN  /\ U32At(asl, start) = next - start - 4
        /\ SubSeq(asl, start + 5, start + 8) = T_null

\* a step leaves every byte already in the buffer as it is
C5_EarlierBytesKept == \A i \in 1..Len(asl) : i <= Len(asl') /\ asl'[i] = asl[i]

\* C5: every record's length field equals the exact byte length of its body,
\* and writing and patching a record never alters the bytes of another record
C5_RecordLength == [](C5_LengthsExact) /\ [][C5_EarlierBytesKept]_vars

\* two records of different lengths have been written and the blob returned
C5_Witness ==
  /\ aslPc = "done" /\ Len(recStarts) = 2
  /\ U32At(asl, recStarts[1]) # U32At(asl, recStarts[2])

\* C6: in "embedded" mode the bytes appended are a u32 prefix n = 2*len(s)+2
\* (even), then each byte of s followed by a zero byte, a two-byte zero
\* terminator, and 0..3 zero bytes of padding after the buffer; the appended
\* bytes are a multiple of 4 and the buffer's earlier content is kept
C6_EmbeddedString ==
  (strPc = "done" /\ strType = "embedded") =>
    LET added == SubSeq(strBuf, Len(strBuf0) + 1, Len(strBuf))
        n     == U32At(added, 0)
        pad   == Len(added) - 4 - n
    IN  /\ SubSeq(strBuf, 1, Len(strBuf0)) = strBuf0
        /\ n = 2 * Len(strIn) + 2
        /\ n % 2 = 0
        /\ \A j \in 1..Len(strIn) : added[4 + 2 * j - 1] = strIn[j] /\ added[4 + 2 * j] = 0
        /\ added[4 + n - 1] = 0 /\ added[4 + n] = 0
        /\ Len(added) % 4 = 0
        /\ pad \in 0..3
        /\ \A j \in 1..pad : added[4 + n + j] = 0

\* a two-byte string has been encoded: six bytes of buffer, two of padding
C6_Witness ==
  /\ strPc = "done" /\ strType = "embedded"
  /\ Len(strIn) = 2
  /\ Len(strBuf) = Len(strBuf0) + 12

-----------------------------------------------------------------------------
(* Properties of the tile codec (SpecTile) *)

\* ceil(a / b)
CeilDiv(a, b) == (a + b - 1) \div b

\* C7: the tiles emitted so far are the first of the row-major enumeration of a
\* ceil(W/64) x ceil(H/64) grid, each origin a multiple of 64 inside the image
\* and none twice; when the loop has ended there are ceil(W/64) * ceil(H/64) of
\* them, and the file written carries that count on its DATA line
C7_TileGrid ==
  LET nx == CeilDiv(img.w, 64)
      ny == CeilDiv(img.h, 64)
  IN  /\ \A k \in 1..Len(tileEntries) :
           LET hd == tileEntries[k].Header
           IN  /\ hd.left = ((k - 1) % nx) * 64
               /\ hd.top = ((k - 1) \div nx) * 64
               /\ hd.left % 64 = 0 /\ hd.top % 64 = 0
               /\ 0 <= hd.left /\ hd.left < img.w
               /\ 0 <= hd.top /\ hd.top < img.h
      /\ \A j, k \in 1..Len(tileEntries) :
           (tileEntries[j].Header.left = tileEntries[k].Header.left
            /\ tileEntries[j].Header.top = tileEntries[k].Header.top) => j = k
      /\ (tilePc \in {"ok", "err"}) => Len(tileEntries) = nx * ny
      /\ tilePc = "ok" => tileFile.DATA = nx * ny /\ tileFile.tiles = tileEntries

\* a 65 x 65 image has been written as four tiles
C7_Witness ==
  /\ tilePc = "ok" /\ img.w = 65 /\ img.h = 65
  /\ [k \in 1..Len(tileEntries) |-> <<tileEntries[k].Header.left, tileEntries[k].Header.top>>]
       = << <<0, 0>>, <<64, 0>>, <<0, 64>>, <<64, 64>> >>

\* C8: the file SaveKritaLayer wrote holds no tile whose header says LZF while
\* its payload holds no plane data
C8_NoHeaderPayloadMismatch ==
  tilePc = "ok" =>
    \A k \in 1..Len(tileFile.tiles) :
      tileFile.tiles[k].Header.tag = "LZF" => tileFile.tiles[k].Data.planes # <<>>

-----------------------------------------------------------------------------
(* Properties of the XML printer (SpecXML) *)

\* C9: two serialisations of the same node are the same string
C9_DeterministicRendering == xmlPc = "done" => xmlOut1 = xmlOut2


-----------------------------------------------------------------------------
(* Properties of the plane buffers (SpecPlanes) *)

\* the index into a pixel <<red, green, blue, alpha>> of each plane, in the
\* order Blue, Green, Red, Alpha
PlaneChannels == <<3, 2, 1, 4>>

\* C16: the plane buffer of the tile (tx, ty) is four planes of 64 * 64 bytes in
\* the order Blue, Green, Red, Alpha, and the byte at offset y * 64 + x of each
\* is the channel of the pixel at column 64 * tx + x, row 64 * ty + y counted
\* from the image's top-left corner when the image has that pixel, 0 otherwise,
\* also for an image whose bounds do not start at (0, 0)
C16_TilePlanes ==
  tilePc = "built" =>
    /\ Len(planeData) = 4 * 64 * 64
    /\ \A p \in 1..4, y \in 0..63, x \in 0..63 :
         LET c == 64 * tilePos[2] + x
             r == 64 * tilePos[1] + y
         IN  planeData[(p - 1) * 64 * 64 + y * 64 + x + 1] =
               IF c < img.w /\ r < img.h THEN pix[<<c, r>>][PlaneChannels[p]] ELSE 0

=============================================================================
